---- MODULE Spec2Model ----
(***************************************************************************)
(* happyreaper: a command line client for cassandra-reaper.                *)
(*                                                                         *)
(* One run of the program is modelled: main parses the global flags,       *)
(* resolves the reaper host, looks the sub command up and runs it; the     *)
(* sub command parses its own flags, validates them, performs its HTTP     *)
(* call and renders the answer.  The pure helpers (the enum flag values,   *)
(* contains, the date flag, the sort of schedules) are operators, and      *)
(* each has a small specification of its own that draws its inputs from    *)
(* bounded sets.                                                           *)
(*                                                                         *)
(* Strings that the code inspects character by character (the enum         *)
(* keywords, the tokens given to Set, the %q quoting of error messages)    *)
(* are sequences of one-character strings.  Strings that the code only     *)
(* compares or copies are TLA+ strings.                                    *)
(***************************************************************************)
EXTENDS Integers, Sequences, FiniteSets, TLC

VARIABLES
    pc,            \* position of the run: "start", "run", "done" (or the stage of a helper specification)
    mainArgs,      \* what main was started with: os.Args and the environment
    flReaperHost,  \* flagutil.NetworkAddresses: the list of reaper hosts
    command,       \* mainFs.Arg(0) once main has found its commandFn
    args,          \* the flags and arguments the sub command parsed
    resp,          \* the outcome of the HTTP call of the sub command
    requests,      \* the HTTP requests handed to the transport, in order
    stdout,        \* what was printed, in order
    err,           \* the error the commandFn returned to main
    exitCode,      \* -1 while running, then the exit code of the process
    fn             \* the input and the result of a helper under its own specification

vars == <<pc, mainArgs, flReaperHost, command, args, resp, requests, stdout, err, exitCode, fn>>

-----------------------------------------------------------------------------
(* Bounds *)

\* tokens given to an enum Set vary the letter case of the first MaxCasePos letters
MaxCasePos == 3
\* longest list given to contains
MaxLen == 3
\* longest list of repair runs in a response
MaxRuns == 2
\* longest list of repair schedules in a response
MaxScheds == 3
\* the dates and timestamps are days 0..MaxDay, day 0 being 0001-01-01
MaxDay == 2

-----------------------------------------------------------------------------
(* Characters and strings *)

DQ == "\""
BS == "\\"
NL == "\n"
\* U+017F, LATIN SMALL LETTER LONG S: Unicode simple case folding puts it
\* in the orbit of "s" and "S"
LongS == "U+017F"

LowerLetters == <<"a","b","c","d","e","f","g","h","i","j","k","l","m",
                  "n","o","p","q","r","s","t","u","v","w","x","y","z">>
UpperLetters == <<"A","B","C","D","E","F","G","H","I","J","K","L","M",
                  "N","O","P","Q","R","S","T","U","V","W","X","Y","Z">>

Min(a, b) == IF a <= b THEN a ELSE b

Range(s) == { s[i] : i \in 1..Len(s) }

ToUpperChar(c) ==
    IF \E i \in 1..26 : LowerLetters[i] = c
    THEN UpperLetters[CHOOSE i \in 1..26 : LowerLetters[i] = c]
    ELSE c

ToUpper(s) == [i \in 1..Len(s) |-> ToUpperChar(s[i])]

\* the representative of the case folding orbit of a character
FoldChar(c) ==
    IF \E i \in 1..26 : UpperLetters[i] = c
    THEN LowerLetters[CHOOSE i \in 1..26 : UpperLetters[i] = c]
    ELSE IF c = LongS THEN "s" ELSE c

\* strings.EqualFold: equality under Unicode simple case folding
EqualFold(s, t) ==
    /\ Len(s) = Len(t)
    /\ \A i \in 1..Len(s) : FoldChar(s[i]) = FoldChar(t[i])

\* the escape sequence %q writes for one character
QuoteChar(c) ==
    IF c = DQ THEN <<BS, DQ>>
    ELSE IF c = BS THEN <<BS, BS>>
    ELSE IF c = NL THEN <<BS, "n">>
    ELSE <<c>>

RECURSIVE QuoteBody(_)
QuoteBody(s) == IF s = <<>> THEN <<>> ELSE QuoteChar(Head(s)) \o QuoteBody(Tail(s))

\* fmt's %q of a string: strconv.Quote
Quote(s) == <<DQ>> \o QuoteBody(s) \o <<DQ>>

\* strings.Contains on sequences of characters
IsSubstring(t, s) ==
    \E i \in 0..(Len(s) - Len(t)) : \A j \in 1..Len(t) : s[i + j] = t[j]

-----------------------------------------------------------------------------
(* errors *)

NoError == [kind |-> "nil"]
\* errors.Str
ErrStr(s) == [kind |-> "str", s |-> s]
\* errors.E
ErrE(k, op) == [kind |-> "E", ekind |-> k, op |-> op]
\* errors.Errorf(format, s) for the formats "<prefix>%q"
Errorf(prefix, s) == ErrStr(prefix \o Quote(s))
\* an error reported by flag.FlagSet.Parse other than flag.ErrHelp
ErrFlag == [kind |-> "flag"]

-----------------------------------------------------------------------------
(* RunState, ScheduleState, Parallelism *)

NotStarted == <<"N","O","T","_","S","T","A","R","T","E","D">>
Running == <<"R","U","N","N","I","N","G">>
Error == <<"E","R","R","O","R">>
Done == <<"D","O","N","E">>
Paused == <<"P","A","U","S","E","D">>
Aborted == <<"A","B","O","R","T","E","D">>
Deleted == <<"D","E","L","E","T","E","D">>

SActive == <<"A","C","T","I","V","E">>
SPaused == <<"P","A","U","S","E","D">>
SDeleted == <<"D","E","L","E","T","E","D">>

Sequential == <<"S","E","Q","U","E","N","T","I","A","L">>
Parallel == <<"P","A","R","A","L","L","E","L">>
DatacenterAware == <<"D","A","T","A","C","E","N","T","E","R","_","A","W","A","R","E">>

InvalidStatePrefix == <<"i","n","v","a","l","i","d"," ","s","t","a","t","e"," ">>
InvalidParallelismPrefix == <<"i","n","v","a","l","i","d"," ","p","a","r","a","l","l","e","l","i","s","m"," ">>

\* func (s RunState) String(), func (s ScheduleState) String(),
\* func (p Parallelism) String(): the conversion string(s)
RunStateString(s) == s
ScheduleStateString(s) == s
ParallelismString(p) == p

\* A Set returns the new value of the receiver and the error.
SetResult(v, e) == [value |-> v, err |-> e]

\* RunState.Set comparing the token with the keywords as written, letter
\* case included
RunStateSetExact(s, str) ==
    IF str = <<"n","o","t","_","s","t","a","r","t","e","d">> THEN SetResult(NotStarted, NoError)
    ELSE IF str = <<"r","u","n","n","i","n","g">> THEN SetResult(Running, NoError)
    ELSE IF str = <<"e","r","r","o","r">> THEN SetResult(Error, NoError)
    ELSE IF str = <<"d","o","n","e">> THEN SetResult(Done, NoError)
    ELSE IF str = <<"p","a","u","s","e","d">> THEN SetResult(Paused, NoError)
    ELSE IF str = <<"a","b","o","r","t","e","d">> THEN SetResult(Aborted, NoError)
    ELSE IF str = <<"d","e","l","e","t","e","d">> THEN SetResult(Deleted, NoError)
    ELSE SetResult(s, Errorf(InvalidStatePrefix, str))

\* func (s *RunState) Set(str string) error
RunStateSet(s, str) ==
    IF EqualFold(str, <<"n","o","t","_","s","t","a","r","t","e","d">>) THEN SetResult(NotStarted, NoError)
    ELSE IF EqualFold(str, <<"r","u","n","n","i","n","g">>) THEN SetResult(Running, NoError)
    ELSE IF EqualFold(str, <<"e","r","r","o","r">>) THEN SetResult(Error, NoError)
    ELSE IF EqualFold(str, <<"d","o","n","e">>) THEN SetResult(Done, NoError)
    ELSE IF EqualFold(str, <<"p","a","u","s","e","d">>) THEN SetResult(Paused, NoError)
    ELSE IF EqualFold(str, <<"a","b","o","r","t","e","d">>) THEN SetResult(Aborted, NoError)
    ELSE IF EqualFold(str, <<"d","e","l","e","t","e","d">>) THEN SetResult(Deleted, NoError)
    ELSE SetResult(s, Errorf(InvalidStatePrefix, str))

\* func (s *ScheduleState) Set(str string) error
ScheduleStateSet(s, str) ==
    IF EqualFold(str, <<"a","c","t","i","v","e">>) THEN SetResult(SActive, NoError)
    ELSE IF EqualFold(str, <<"p","a","u","s","e","d">>) THEN SetResult(SPaused, NoError)
    ELSE IF EqualFold(str, <<"d","e","l","e","t","e","d">>) THEN SetResult(SDeleted, NoError)
    ELSE SetResult(s, Errorf(InvalidStatePrefix, str))

\* func (p *Parallelism) Set(s string) error
ParallelismSet(p, s) ==
    IF EqualFold(s, <<"s","e","q","u","e","n","t","i","a","l">>) THEN SetResult(Sequential, NoError)
    ELSE IF EqualFold(s, <<"p","a","r","a","l","l","e","l">>) THEN SetResult(Parallel, NoError)
    ELSE IF EqualFold(s, <<"d","a","t","a","c","e","n","t","e","r","_","a","w","a","r","e">>) THEN SetResult(DatacenterAware, NoError)
    ELSE SetResult(p, Errorf(InvalidParallelismPrefix, s))

RunStates == {NotStarted, Running, Error, Done, Paused, Aborted, Deleted}
ScheduleStates == {SActive, SPaused, SDeleted}
Parallelisms == {Sequential, Parallel, DatacenterAware}

-----------------------------------------------------------------------------
(* contains *)

\* the first loop of contains: the keys of the map m after ranging over a
RECURSIVE containsMap(_, _)
containsMap(a, m) ==
    IF a = <<>> THEN m ELSE containsMap(Tail(a), m \cup {Head(a)})

\* the second loop of contains returning after the first element of b
RECURSIVE containsScanFirst(_, _)
containsScanFirst(b, m) ==
    IF b = <<>> THEN FALSE
    ELSE Head(b) \in m

\* the second loop of contains: true at the first element of b found in m
RECURSIVE containsScan(_, _)
containsScan(b, m) ==
    IF b = <<>> THEN FALSE
    ELSE IF Head(b) \in m THEN TRUE
    ELSE containsScan(Tail(b), m)

\* func contains(a, b []string) bool
contains(a, b) == containsScan(b, containsMap(a, {}))

-----------------------------------------------------------------------------
(* Time *)

\* A time.Time is a number of half days since 0001-01-01 00:00 UTC, the zero
\* Time; a *time.Time is one of these or Nil.
Nil == -1
TicksPerDay == 2
MaxTick == MaxDay * TicksPerDay + 1
Times == 0..MaxTick

\* func (t Time) IsZero() bool
IsZero(t) == t = 0
\* func (t Time) Before(u Time) bool
Before(t, u) == t < u
\* func (t Time) After(u Time) bool
After(t, u) == t > u

\* The dates a date flag is given: day d stands for the d-th day after
\* 0001-01-01 written in the layout 2006-01-02, and "malformed" for a
\* string that is not in the layout.
DateTokens == 0..MaxDay
MalformedDate == "malformed"

\* the zero myTime, the value of a date flag that was not given
ZeroMyTime == 0

\* func (t *myTime) Set(s string) error, on a well-formed date: time.Parse
\* gives midnight UTC of that day
myTimeSet(t, day) == SetResult(day * TicksPerDay, NoError)

-----------------------------------------------------------------------------
(* HTTP *)

\* net/http status codes
StatusOK == 200
StatusCreated == 201
\* the statuses the server answers with
Statuses == {StatusOK, StatusCreated, 404}

\* A response body is either text that is not JSON (the empty body is
\* one) or the JSON encoding of a value of the shape the command decodes.
TextBody(s) == [tag |-> "text", val |-> s]
JsonBody(v) == [tag |-> "json", val |-> v]
EmptyBody == TextBody("")
GarbageBody == TextBody("not found")

\* json.NewDecoder(rd).Decode(&res)
Decode(body) ==
    IF body.tag = "json" THEN [ok |-> TRUE, val |-> body.val] ELSE [ok |-> FALSE]

\* The outcome of handing a request to the transport: an error, or a
\* response with a status and a body.
TransportError == [kind |-> "error"]
Response(status, body) == [kind |-> "response", status |-> status, body |-> body]
NoResp == [kind |-> "none"]

Outcomes(bodies) == {TransportError} \cup { Response(st, b) : st \in Statuses, b \in bodies }

\* var buf bytes.Buffer: the chunks written to it so far
NewBuffer == <<>>

\* One Read of io.TeeReader(resp.Body, &buf) that drains the body: what is
\* read is written to buf.
TeeRead(buf, body) == IF body = EmptyBody THEN buf ELSE Append(buf, body)

\* io.Copy(&buf, rd): bytes.Buffer.ReadFrom reads from the tee reader into
\* the free space of buf; the tee reader's Write to buf lands on the same
\* bytes, and ReadFrom then sets the length to what it read, so that the
\* body is in buf once.
Copy(buf, body) == TeeRead(buf, body)

\* buf.String()
BufString(buf) == IF buf = <<>> THEN EmptyBody ELSE buf[1]
\* buf.Len()
BufLen(buf) == Len(buf)

\* A URL is "http://" + host + path with an optional query; the path is the
\* sequence of the strings it is concatenated from.
WithQuery(u, q) == [u EXCEPT !.query = q]
NoQuery == <<>>

\* func makeURL(path string) string
makeURL(path) == [host |-> flReaperHost[1], path |-> path, query |-> NoQuery]

\* a path element with a malformed percent escape, which url.Parse rejects
MalformedEscape == "%zz"

\* url.Parse, as http.NewRequest calls it, accepts the URL
URLParses(u) == \A i \in 1..Len(u.path) : u.path[i] # MalformedEscape

\* Strings that a command puts in the path without escaping them: one that
\* holds a "?" and one that ends with a "#".
QueryInjection == "s1?state=DELETED&"
FragmentCut == "s1#"

\* What url.Parse makes of a string of the path: the path before the first
\* "#" or "?", the pairs of the query after a "?", and the character found.
SplitPath(e) ==
    IF e = QueryInjection
    THEN [path |-> "s1", query |-> <<<<"state", "DELETED">>>>, cut |-> "?"]
    ELSE IF e = FragmentCut THEN [path |-> "s1", query |-> <<>>, cut |-> "#"]
    ELSE [path |-> e, query |-> <<>>, cut |-> ""]

\* url.Parse of host + path + "?" + query, the strings concatenated as they
\* are: what follows a "#" is the fragment, which is not sent; what follows
\* the first "?" is the query, and the "?" the command writes before its own
\* query is then part of the name of its first pair.
Parse(u) ==
    LET cuts == { i \in 1..Len(u.path) : SplitPath(u.path[i]).cut # "" } IN
    IF cuts = {} THEN u
    ELSE LET i == CHOOSE c \in cuts : \A d \in cuts : c <= d
             sp == SplitPath(u.path[i])
             before == SubSeq(u.path, 1, i - 1) \o <<sp.path>>
         IN  IF sp.cut = "#" THEN [host |-> u.host, path |-> before, query |-> <<>>]
             ELSE [host |-> u.host, path |-> before,
                   query |-> sp.query \o [j \in 1..Len(u.query) |->
                                 IF j = 1 THEN <<"?" \o u.query[j][1], u.query[j][2]>>
                                 ELSE u.query[j]]]

\* http.NewRequest(method, ur, nil), and http.Get and http.Post: the request
\* holds the URL that url.Parse returns
Request(method, u) == [method |-> method, url |-> Parse(u)]

\* url.Values with one Add per element, in Encode order
Param(k, v) == <<k, v>>

-----------------------------------------------------------------------------
(* Output *)

\* one thing printed: its kind and its value
Printed(k, v) == [k |-> k, v |-> v]
\* fmt.Println and color.Yellow of a fixed message
Line(s) == Printed("line", s)

\* what a commandFn did and returned
Ret(reqs, r, out, e) == [requests |-> reqs, resp |-> r, stdout |-> out, err |-> e, panic |-> FALSE]
\* a commandFn that panicked: the runtime ends the process
Panic(reqs, r, out) == [requests |-> reqs, resp |-> r, stdout |-> out, err |-> NoError, panic |-> TRUE]

\* the messages of errors.Str for missing parameters
Lit(s) == [tag |-> "lit", val |-> s]

-----------------------------------------------------------------------------
(* Records of the reaper API *)

\* type RepairRun struct: the fields the commands read
RepairRun(id, owner, cfs, start) ==
    [ID |-> id, Owner |-> owner, ClusterName |-> "c1", KeyspaceName |-> "k1",
     State |-> Running, Cause |-> "manual", ColumnFamilies |-> cfs, StartTime |-> start]

\* type RepairSchedule struct: the fields the commands read
RepairSchedule(id, keyspace, state, cfs, next) ==
    [ID |-> id, Owner |-> "alice", ClusterName |-> "c1", KeyspaceName |-> keyspace,
     State |-> state, ColumnFamilies |-> cfs, NextActivation |-> next]

\* type Cluster struct
Cluster(name, seeds, runs, schedules) ==
    [Name |-> name, SeedHosts |-> seeds, RepairRuns |-> runs, RepairSchedules |-> schedules]

\* sequences of length at most n over a set
SeqsUpTo(S, n) == UNION { [1..k -> S] : k \in 0..n }

\* the column family lists of runs and schedules, and of the -tables and -cf flags
CFLists == {<<>>, <<"t1">>, <<"t2">>, <<"t2", "t1">>}
FlagCFLists == {<<>>, <<"t1">>, <<"t1", "t3">>}

\* The runs a response is made of: every column family list with one start
\* time, every start time (absent included) with one column family list,
\* and a run of another owner.
RunPool ==
    { RepairRun(1, "alice", cf, TicksPerDay) : cf \in CFLists }
    \cup { RepairRun(2, "alice", <<"t1">>, st) : st \in {Nil} \cup Times }
    \cup { RepairRun(3, "bob", <<"t2">>, Nil) }

\* the latest next activation of a schedule in a response
MaxNext == 2

\* The schedules a response is made of; the ID names the fields.
SchedulePool ==
    { RepairSchedule(<<ks[1], ks[2], nx>>, ks[1], ks[2], <<"t1">>, nx) :
        ks \in {<<"k1", SActive>>, <<"k2", SActive>>, <<"k1", SPaused>>},
        nx \in {Nil} \cup 1..MaxNext }

-----------------------------------------------------------------------------
(* cluster.go *)

\* func listClusters(args []string) error
listClustersFn(r) ==
    LET op == "listClusters"
        req == Request("GET", makeURL(<<"/cluster">>))
    IN  IF r = TransportError THEN Ret(<<req>>, r, <<>>, ErrE("IO", op))
        ELSE LET d == Decode(r.body) IN
             IF ~d.ok THEN Ret(<<req>>, r, <<>>, ErrE("IO", op))
             ELSE Ret(<<req>>, r,
                      <<Line("All clusters:")>> \o [i \in 1..Len(d.val) |-> Printed("cluster", d.val[i])],
                      NoError)

\* type printClusterParams struct
printClusterParams(showRuns, showSchedules, cfs, runState, scheduleState) ==
    [ShowRuns |-> showRuns, ShowSchedules |-> showSchedules, FilterCFs |-> cfs,
     FilterRunState |-> runState, FilterScheduleState |-> scheduleState]

\* printClusterParams{}
ZeroPrintClusterParams == printClusterParams(FALSE, FALSE, <<>>, <<>>, <<>>)

\* printCluster: the loop over c.RepairRuns
RECURSIVE printClusterRuns(_, _, _)
printClusterRuns(runs, params, headerPrinted) ==
    IF runs = <<>> THEN <<>>
    ELSE LET run == Head(runs) IN
         IF Len(params.FilterCFs) > 0 /\ ~contains(run.ColumnFamilies, params.FilterCFs)
         THEN printClusterRuns(Tail(runs), params, headerPrinted)
         ELSE IF params.FilterRunState # <<>> /\ run.State # params.FilterRunState
         THEN printClusterRuns(Tail(runs), params, headerPrinted)
         ELSE (IF ~headerPrinted THEN <<Line("Runs:")>> ELSE <<>>)
              \o <<Printed("run", run)>>
              \o printClusterRuns(Tail(runs), params, TRUE)

\* printCluster: the loop over c.RepairSchedules; headerPrinted is never set
RECURSIVE printClusterSchedules(_, _, _)
printClusterSchedules(schedules, params, headerPrinted) ==
    IF schedules = <<>> THEN <<>>
    ELSE LET sc == Head(schedules) IN
         IF Len(params.FilterCFs) > 0 /\ ~contains(sc.ColumnFamilies, params.FilterCFs)
         THEN printClusterSchedules(Tail(schedules), params, headerPrinted)
         ELSE IF params.FilterScheduleState # <<>> /\ sc.State # params.FilterScheduleState
         THEN printClusterSchedules(Tail(schedules), params, headerPrinted)
         ELSE (IF ~headerPrinted THEN <<Line("Schedules:")>> ELSE <<>>)
              \o <<Printed("schedule", sc)>>
              \o printClusterSchedules(Tail(schedules), params, headerPrinted)

\* func printCluster(c Cluster, params printClusterParams)
printCluster(c, params) ==
    <<Line("Seeds:")>>
    \o [i \in 1..Len(c.SeedHosts) |-> Printed("seed", c.SeedHosts[i])]
    \o <<Line("")>>
    \o (IF params.ShowRuns THEN printClusterRuns(c.RepairRuns, params, FALSE) ELSE <<>>)
    \o (IF params.ShowSchedules THEN printClusterSchedules(c.RepairSchedules, params, FALSE) ELSE <<>>)

\* func viewCluster(args []string) error
viewClusterFn(a, r) ==
    LET op == "viewCluster" IN
    IF a.parse = "help" THEN Ret(<<>>, NoResp, <<>>, NoError)
    ELSE IF a.parse = "error" THEN Ret(<<>>, NoResp, <<>>, ErrFlag)
    ELSE IF Len(a.rest) < 1 THEN Ret(<<>>, NoResp, <<>>, ErrStr(Lit("please provide a cluster name")))
    ELSE LET flName == a.rest[1]
             u == makeURL(<<"/cluster/", flName>>)
             req == Request("GET", u)
         IN  IF ~URLParses(u) THEN Ret(<<>>, NoResp, <<>>, ErrE("IO", op))
             ELSE IF r = TransportError THEN Ret(<<req>>, r, <<>>, ErrE("IO", op))
             ELSE IF r.status # StatusOK
             THEN Ret(<<req>>, r, <<>>, ErrStr(BufString(Copy(NewBuffer, r.body))))
             ELSE LET d == Decode(r.body) IN
                  IF ~d.ok THEN Ret(<<req>>, r, <<>>, ErrE("IO", op))
                  ELSE Ret(<<req>>, r,
                           <<Printed("title", flName)>>
                           \o printCluster(d.val, printClusterParams(a.showRuns, a.showSchedules,
                                                                     a.cfs, a.runState, a.scheduleState)),
                           NoError)

\* func addCluster(args []string) error
addClusterFn(a, r) ==
    LET op == "addCluster" IN
    IF a.parse = "help" THEN Ret(<<>>, NoResp, <<>>, NoError)
    ELSE IF a.parse = "error" THEN Ret(<<>>, NoResp, <<>>, ErrFlag)
    ELSE IF a.seed = "" THEN Ret(<<>>, NoResp, <<>>, ErrStr(Lit("please provide a seed host")))
    ELSE LET u == WithQuery(makeURL(<<"/cluster">>), <<Param("seedHost", a.seed)>>)
             req == Request("POST", u)
         IN  IF r = TransportError THEN Ret(<<req>>, r, <<>>, ErrE("IO", op))
             ELSE IF r.status # StatusOK
             THEN Ret(<<req>>, r, <<>>, ErrStr(BufString(Copy(NewBuffer, r.body))))
             ELSE LET d == Decode(r.body) IN
                  IF ~d.ok THEN Ret(<<req>>, r, <<>>, ErrE("IO", op))
                  ELSE Ret(<<req>>, r,
                           <<Printed("added", d.val.Name)>> \o printCluster(d.val, ZeroPrintClusterParams),
                           NoError)

-----------------------------------------------------------------------------
(* repair.go *)

\* strconv.Itoa
Itoa(n) == ToString(n)

\* a date flag of list-repairs: not given, or given with a date
NoDate == [given |-> FALSE, day |-> 0]
Date(d) == [given |-> TRUE, day |-> d]

\* the myTime a date flag holds after fs.Parse
FlagTime(f) == IF f.given THEN myTimeSet(ZeroMyTime, f.day).value ELSE ZeroMyTime

\* listRepairs: the switch in the loop over the runs, for one run:
\* "continue", "print", or "panic" for a dereference of a nil StartTime
listRepairsCase(run, a) ==
    LET flStartAfter == FlagTime(a.startAfter)
        flStartBefore == FlagTime(a.startBefore)
    IN  IF a.cluster # "" /\ a.cluster # run.ClusterName THEN "continue"
        ELSE IF a.keyspace # "" /\ a.keyspace # run.KeyspaceName THEN "continue"
        ELSE IF Len(a.tables) > 0 /\ contains(run.ColumnFamilies, a.tables) THEN "continue"
        ELSE IF a.owner # "" /\ a.owner # run.Owner THEN "continue"
        ELSE IF a.cause # "" /\ a.cause # run.Cause THEN "continue"
        ELSE IF (~IsZero(flStartAfter) \/ ~IsZero(flStartBefore)) /\ run.StartTime = Nil THEN "continue"
        ELSE IF ~IsZero(flStartAfter) /\ run.StartTime = Nil THEN "panic"
        ELSE IF ~IsZero(flStartAfter) /\ Before(run.StartTime, flStartAfter) THEN "continue"
        ELSE IF ~IsZero(flStartBefore) /\ run.StartTime = Nil THEN "panic"
        ELSE IF ~IsZero(flStartBefore) /\ After(run.StartTime, flStartBefore) THEN "continue"
        ELSE "print"

\* listRepairs: the loop over the runs; the output so far and whether it panicked
RECURSIVE listRepairsLoop(_, _, _)
listRepairsLoop(runs, a, out) ==
    IF runs = <<>> THEN [stdout |-> out, panic |-> FALSE]
    ELSE LET c == listRepairsCase(Head(runs), a) IN
         IF c = "panic" THEN [stdout |-> out, panic |-> TRUE]
         ELSE IF c = "continue" THEN listRepairsLoop(Tail(runs), a, out)
         ELSE listRepairsLoop(Tail(runs), a, Append(out, Printed("run", Head(runs))))

\* func listRepairs(args []string) error
listRepairsFn(a, r) ==
    LET op == "listRepairs" IN
    IF a.parse = "help" THEN Ret(<<>>, NoResp, <<>>, NoError)
    ELSE IF a.parse = "error" THEN Ret(<<>>, NoResp, <<>>, ErrFlag)
    ELSE LET qry == IF a.runState # <<>> THEN <<Param("state", RunStateString(a.runState))>> ELSE <<>>
             u == WithQuery(makeURL(<<"/repair_run">>), qry)
             req == Request("GET", u)
         IN  IF r = TransportError THEN Ret(<<req>>, r, <<>>, ErrE("IO", op))
             ELSE IF r.status # StatusOK
             THEN Ret(<<req>>, r, <<>>, ErrStr(BufString(Copy(NewBuffer, r.body))))
             ELSE LET d == Decode(r.body) IN
                  IF ~d.ok THEN Ret(<<req>>, r, <<>>, ErrE("IO", op))
                  ELSE LET l == listRepairsLoop(d.val, a, <<>>) IN
                       IF l.panic THEN Panic(<<req>>, r, l.stdout)
                       ELSE Ret(<<req>>, r, l.stdout, NoError)

\* func viewRepair(args []string) error
viewRepairFn(a, r) ==
    LET op == "viewRepair" IN
    IF a.parse = "help" THEN Ret(<<>>, NoResp, <<>>, NoError)
    ELSE IF a.parse = "error" THEN Ret(<<>>, NoResp, <<>>, ErrFlag)
    ELSE IF a.id <= 0 THEN Ret(<<>>, NoResp, <<>>, ErrStr(Lit("please provide a valid ID")))
    ELSE LET u == makeURL(<<"/repair_run/", Itoa(a.id)>>)
             req == Request("GET", u)
         IN  IF r = TransportError THEN Ret(<<req>>, r, <<>>, ErrE("IO", op))
             ELSE IF r.status # StatusOK
             THEN Ret(<<req>>, r, <<>>, ErrStr(BufString(Copy(NewBuffer, r.body))))
             ELSE LET d == Decode(r.body) IN
                  IF ~d.ok THEN Ret(<<req>>, r, <<>>, ErrE("IO", op))
                  ELSE Ret(<<req>>, r, <<Printed("run", d.val)>>, NoError)

\* changeRepairState sending the request a second time after a transport error
changeRepairStateRetry(repairID, state, r) ==
    LET op == "changeRepairState"
        qry == <<Param("state", RunStateString(state))>>
        ur == WithQuery(makeURL(<<"/repair_run/", Itoa(repairID)>>), qry)
        req == Request("PUT", ur)
    IN  IF ~URLParses(ur) THEN Ret(<<>>, NoResp, <<>>, ErrE("Invalid", op))
        ELSE IF r = TransportError THEN Ret(<<req, req>>, r, <<>>, ErrE("IO", op))
        ELSE IF r.status # StatusOK
        THEN Ret(<<req>>, r, <<>>, ErrStr(BufString(Copy(NewBuffer, r.body))))
        ELSE LET buf == NewBuffer IN
             Ret(<<req>>, r,
                 <<Printed("state changed", state)>>
                 \o (IF BufLen(buf) > 0 THEN <<Printed("text", BufString(buf))>> ELSE <<>>),
                 NoError)

\* func changeRepairState(repairID int, state RunState) error
changeRepairState(repairID, state, r) ==
    LET op == "changeRepairState"
        qry == <<Param("state", RunStateString(state))>>
        ur == WithQuery(makeURL(<<"/repair_run/", Itoa(repairID)>>), qry)
        req == Request("PUT", ur)
    IN  IF ~URLParses(ur) THEN Ret(<<>>, NoResp, <<>>, ErrE("Invalid", op))
        ELSE IF r = TransportError THEN Ret(<<req>>, r, <<>>, ErrE("IO", op))
        ELSE IF r.status # StatusOK
        THEN Ret(<<req>>, r, <<>>, ErrStr(BufString(Copy(NewBuffer, r.body))))
        ELSE LET buf == NewBuffer IN
             Ret(<<req>>, r,
                 <<Printed("state changed", state)>>
                 \o (IF BufLen(buf) > 0 THEN <<Printed("text", BufString(buf))>> ELSE <<>>),
                 NoError)

\* pauseRepair validating the id before it looks at the error of fs.Parse
pauseRepairFnValidatesFirst(a, r) ==
    IF a.parse = "error" THEN Ret(<<>>, NoResp, <<>>, ErrFlag)
    ELSE IF a.id <= 0 THEN Ret(<<>>, NoResp, <<>>, ErrStr(Lit("please provide a valid ID")))
    ELSE IF a.parse = "help" THEN Ret(<<>>, NoResp, <<>>, NoError)
    ELSE changeRepairState(a.id, Paused, r)

\* func pauseRepair(args []string) error
pauseRepairFn(a, r) ==
    IF a.parse = "help" THEN Ret(<<>>, NoResp, <<>>, NoError)
    ELSE IF a.parse = "error" THEN Ret(<<>>, NoResp, <<>>, ErrFlag)
    ELSE IF a.id <= 0 THEN Ret(<<>>, NoResp, <<>>, ErrStr(Lit("please provide a valid ID")))
    ELSE changeRepairState(a.id, Paused, r)

\* func resumeRepair(args []string) error
resumeRepairFn(a, r) ==
    IF a.parse = "help" THEN Ret(<<>>, NoResp, <<>>, NoError)
    ELSE IF a.parse = "error" THEN Ret(<<>>, NoResp, <<>>, ErrFlag)
    ELSE IF a.id <= 0 THEN Ret(<<>>, NoResp, <<>>, ErrStr(Lit("please provide a valid ID")))
    ELSE changeRepairState(a.id, Running, r)

\* func deleteRepair(args []string) error
deleteRepairFn(a, r) ==
    LET op == "deleteRepair" IN
    IF a.parse = "help" THEN Ret(<<>>, NoResp, <<>>, NoError)
    ELSE IF a.parse = "error" THEN Ret(<<>>, NoResp, <<>>, ErrFlag)
    ELSE IF a.id <= 0 THEN Ret(<<>>, NoResp, <<>>, ErrStr(Lit("please provide a valid ID")))
    ELSE IF a.owner = "" THEN Ret(<<>>, NoResp, <<>>, ErrStr(Lit("please provide a valid owner")))
    ELSE LET qry == <<Param("owner", a.owner)>>
             ur == WithQuery(makeURL(<<"/repair_run/", Itoa(a.id)>>), qry)
             req == Request("DELETE", ur)
         IN  IF ~URLParses(ur) THEN Ret(<<>>, NoResp, <<>>, ErrE("Invalid", op))
             ELSE IF r = TransportError THEN Ret(<<req>>, r, <<>>, ErrE("IO", op))
             ELSE IF r.status # StatusOK
             THEN Ret(<<req>>, r, <<>>, ErrStr(BufString(Copy(NewBuffer, r.body))))
             ELSE LET buf == NewBuffer IN
                  Ret(<<req>>, r, <<Printed("text", BufString(buf))>>, NoError)

\* addRepair and addSchedule sending flPar as fs.Parse left it
DefaultParKept(flPar) == flPar

\* addRepair and addSchedule: if flPar == "" { flPar = Sequential }
DefaultPar(flPar) == IF flPar = <<>> THEN Sequential ELSE flPar

\* func addRepair(args []string) error
addRepairFn(a, r) ==
    LET op == "addRepair" IN
    IF a.parse = "help" THEN Ret(<<>>, NoResp, <<>>, NoError)
    ELSE IF a.parse = "error" THEN Ret(<<>>, NoResp, <<>>, ErrFlag)
    ELSE IF a.cluster = "" THEN Ret(<<>>, NoResp, <<>>, ErrStr(Lit("please provide a cluster")))
    ELSE IF a.keyspace = "" THEN Ret(<<>>, NoResp, <<>>, ErrStr(Lit("please provide a keyspace")))
    ELSE IF a.owner = "" THEN Ret(<<>>, NoResp, <<>>, ErrStr(Lit("please provide an owner")))
    ELSE IF a.cause = "" THEN Ret(<<>>, NoResp, <<>>, ErrStr(Lit("please provide a cause")))
    ELSE LET flPar == DefaultPar(a.par)
             qry == <<Param("clusterName", a.cluster), Param("keyspace", a.keyspace)>>
                    \o (IF Len(a.tables) > 0 THEN <<Param("tables", a.tables)>> ELSE <<>>)
                    \o <<Param("owner", a.owner), Param("cause", a.cause),
                         Param("segmentCount", Itoa(a.segments)),
                         Param("repairParallelism", ParallelismString(flPar)),
                         Param("intensity", a.intensity)>>
             ur == WithQuery(makeURL(<<"/repair_run">>), qry)
             req == Request("POST", ur)
         IN  IF r = TransportError THEN Ret(<<req>>, r, <<>>, ErrE("IO", op))
             ELSE IF r.status # StatusCreated
             THEN Ret(<<req>>, r, <<>>, ErrStr(BufString(Copy(NewBuffer, r.body))))
             ELSE LET d == Decode(r.body) IN
                  IF ~d.ok THEN Ret(<<req>>, r, <<>>, ErrE("IO", op))
                  ELSE Ret(<<req>>, r,
                           <<Printed("added", d.val.ID), Printed("run", d.val),
                             Line("NOTE: remember to resume-repair the repair just created")>>,
                           NoError)

-----------------------------------------------------------------------------
(* schedule.go *)

\* const ScheduleSortByNextActivation
ScheduleSortByNextActivation == "next-activation"

\* func (s *ScheduleSortBy) Set(str string) error: any string is taken
ScheduleSortBySet(s, str) == SetResult(str, NoError)

\* func callListSchedules(qry url.Values) ([]RepairSchedule, error)
callListSchedules(qry, r) ==
    LET op == "callListSchedules"
        req == Request("GET", WithQuery(makeURL(<<"/repair_schedule">>), qry))
    IN  IF r = TransportError THEN [requests |-> <<req>>, res |-> <<>>, err |-> ErrE("IO", op)]
        ELSE IF r.status # StatusOK
        THEN [requests |-> <<req>>, res |-> <<>>, err |-> ErrStr(BufString(Copy(NewBuffer, r.body)))]
        ELSE LET d == Decode(r.body) IN
             IF ~d.ok THEN [requests |-> <<req>>, res |-> <<>>, err |-> ErrE("IO", op)]
             ELSE [requests |-> <<req>>, res |-> d.val, err |-> NoError]

Swap(res, i, j) == [res EXCEPT ![i] = res[j], ![j] = res[i]]

\* The less functions of sortSchedules: both NextActivation pointers are
\* dereferenced.
lessDerefsNil(res, i, j) == res[i].NextActivation = Nil \/ res[j].NextActivation = Nil
\* the less function of the ascending sort, used for both directions
lessIgnoresReverse(res, i, j, reverse) ==
    Before(res[i].NextActivation, res[j].NextActivation)
less(res, i, j, reverse) ==
    IF reverse THEN After(res[i].NextActivation, res[j].NextActivation)
    ELSE Before(res[i].NextActivation, res[j].NextActivation)

\* sort.Slice on fewer than 12 elements is an insertion sort:
\*   for i := a + 1; i < b; i++ {
\*       for j := i; j > a && less(j, j-1); j-- { swap(j, j-1) } }
\* The inner loop, from position j (positions count from 1):
RECURSIVE insertionInner(_, _, _)
insertionInner(res, j, reverse) ==
    IF j <= 1 THEN [res |-> res, panic |-> FALSE]
    ELSE IF lessDerefsNil(res, j, j - 1) THEN [res |-> res, panic |-> TRUE]
    ELSE IF less(res, j, j - 1, reverse) THEN insertionInner(Swap(res, j, j - 1), j - 1, reverse)
    ELSE [res |-> res, panic |-> FALSE]

\* the outer loop, from position i
RECURSIVE insertionSort(_, _, _)
insertionSort(res, i, reverse) ==
    IF i > Len(res) THEN [res |-> res, panic |-> FALSE]
    ELSE LET in == insertionInner(res, i, reverse) IN
         IF in.panic THEN in ELSE insertionSort(in.res, i + 1, reverse)

\* func sortSchedules(res []RepairSchedule, sortBy ScheduleSortBy, reverse bool)
sortSchedules(res, sortBy, reverse) ==
    IF sortBy = ScheduleSortByNextActivation /\ ~reverse THEN insertionSort(res, 2, FALSE)
    ELSE IF sortBy = ScheduleSortByNextActivation THEN insertionSort(res, 2, TRUE)
    ELSE [res |-> res, panic |-> FALSE]

\* func nextSchedule(args []string) error
nextScheduleFn(a, r) ==
    IF a.parse = "help" THEN Ret(<<>>, NoResp, <<>>, NoError)
    ELSE IF a.parse = "error" THEN Ret(<<>>, NoResp, <<>>, ErrFlag)
    ELSE LET c == callListSchedules(<<>>, r) IN
         IF c.err # NoError THEN Ret(c.requests, r, <<>>, c.err)
         ELSE IF Len(c.res) <= 0 THEN Ret(c.requests, r, <<>>, NoError)
         ELSE LET sorted == sortSchedules(c.res, ScheduleSortByNextActivation, FALSE) IN
              IF sorted.panic THEN Panic(c.requests, r, <<>>)
              ELSE Ret(c.requests, r, <<Printed("schedule", sorted.res[1])>>, NoError)

\* listSchedules: the loop over the sorted schedules
RECURSIVE listSchedulesLoop(_, _)
listSchedulesLoop(res, a) ==
    IF res = <<>> THEN <<>>
    ELSE LET sched == Head(res)
             keyspaceOK == a.keyspace = "" \/ sched.KeyspaceName = a.keyspace
             stateOK == a.state = <<>> \/ sched.State = a.state
         IN  IF ~keyspaceOK \/ ~stateOK THEN listSchedulesLoop(Tail(res), a)
             ELSE <<Printed("schedule", sched)>> \o listSchedulesLoop(Tail(res), a)

\* func listSchedules(args []string) error
listSchedulesFn(a, r) ==
    IF a.parse = "help" THEN Ret(<<>>, NoResp, <<>>, NoError)
    ELSE IF a.parse = "error" THEN Ret(<<>>, NoResp, <<>>, ErrFlag)
    ELSE LET qry == (IF a.cluster # "" THEN <<Param("clusterName", a.cluster)>> ELSE <<>>)
                    \o (IF a.keyspace # "" THEN <<Param("keyspaceName", a.keyspace)>> ELSE <<>>)
             c == callListSchedules(qry, r)
         IN  IF c.err # NoError THEN Ret(c.requests, r, <<>>, c.err)
             ELSE LET sorted == sortSchedules(c.res, a.sortBy, a.reverse) IN
                  IF sorted.panic THEN Panic(c.requests, r, <<>>)
                  ELSE Ret(c.requests, r, listSchedulesLoop(sorted.res, a), NoError)

\* func viewSchedule(args []string) error
viewScheduleFn(a, r) ==
    LET op == "viewSchedule" IN
    IF a.parse = "help" THEN Ret(<<>>, NoResp, <<>>, NoError)
    ELSE IF a.parse = "error" THEN Ret(<<>>, NoResp, <<>>, ErrFlag)
    ELSE IF a.id = "" THEN Ret(<<>>, NoResp, <<>>, ErrStr(Lit("please provide a valid ID")))
    ELSE LET u == makeURL(<<"/repair_schedule/", a.id>>)
             req == Request("GET", u)
         IN  IF ~URLParses(u) THEN Ret(<<>>, NoResp, <<>>, ErrE("IO", op))
             ELSE IF r = TransportError THEN Ret(<<req>>, r, <<>>, ErrE("IO", op))
             ELSE IF r.status # StatusOK
             THEN Ret(<<req>>, r, <<>>, ErrStr(BufString(Copy(NewBuffer, r.body))))
             ELSE LET d == Decode(r.body) IN
                  IF ~d.ok THEN Ret(<<req>>, r, <<>>, ErrE("IO", op))
                  ELSE Ret(<<req>>, r, <<Printed("schedule", d.val)>>, NoError)

\* deleteSchedule without the test of the owner: the request is sent with
\* an empty owner
deleteScheduleFnOwnerUnchecked(a, r) ==
    LET op == "deleteSchedule" IN
    IF a.parse = "help" THEN Ret(<<>>, NoResp, <<>>, NoError)
    ELSE IF a.parse = "error" THEN Ret(<<>>, NoResp, <<>>, ErrFlag)
    ELSE IF a.id = "" THEN Ret(<<>>, NoResp, <<>>, ErrStr(Lit("please provide a valid ID")))
    ELSE LET qry == <<Param("owner", a.owner)>>
             ur == WithQuery(makeURL(<<"/repair_schedule/", a.id>>), qry)
             req == Request("DELETE", ur)
         IN  IF ~URLParses(ur) THEN Ret(<<>>, NoResp, <<>>, ErrE("Invalid", op))
             ELSE IF r = TransportError THEN Ret(<<req>>, r, <<>>, ErrE("IO", op))
             ELSE IF r.status # StatusOK
             THEN Ret(<<req>>, r, <<>>, ErrStr(BufString(Copy(NewBuffer, r.body))))
             ELSE LET d == Decode(r.body) IN
                  IF ~d.ok THEN Ret(<<req>>, r, <<>>, ErrE("IO", op))
                  ELSE Ret(<<req>>, r, <<Printed("deleted", a.id), Printed("schedule", d.val)>>, NoError)

\* func deleteSchedule(args []string) error
deleteScheduleFn(a, r) ==
    LET op == "deleteSchedule" IN
    IF a.parse = "help" THEN Ret(<<>>, NoResp, <<>>, NoError)
    ELSE IF a.parse = "error" THEN Ret(<<>>, NoResp, <<>>, ErrFlag)
    ELSE IF a.id = "" THEN Ret(<<>>, NoResp, <<>>, ErrStr(Lit("please provide a valid ID")))
    ELSE IF a.owner = "" THEN Ret(<<>>, NoResp, <<>>, ErrStr(Lit("please provide a valid owner")))
    ELSE LET qry == <<Param("owner", a.owner)>>
             ur == WithQuery(makeURL(<<"/repair_schedule/", a.id>>), qry)
             req == Request("DELETE", ur)
         IN  IF ~URLParses(ur) THEN Ret(<<>>, NoResp, <<>>, ErrE("Invalid", op))
             ELSE IF r = TransportError THEN Ret(<<req>>, r, <<>>, ErrE("IO", op))
             ELSE IF r.status # StatusOK
             THEN Ret(<<req>>, r, <<>>, ErrStr(BufString(Copy(NewBuffer, r.body))))
             ELSE LET d == Decode(r.body) IN
                  IF ~d.ok THEN Ret(<<req>>, r, <<>>, ErrE("IO", op))
                  ELSE Ret(<<req>>, r, <<Printed("deleted", a.id), Printed("schedule", d.val)>>, NoError)

\* func changeScheduleState(repairID string, state ScheduleState) error
changeScheduleState(repairID, state, r) ==
    LET op == "changeScheduleState"
        qry == <<Param("state", ScheduleStateString(state))>>
        ur == WithQuery(makeURL(<<"/repair_schedule/", repairID>>), qry)
        req == Request("PUT", ur)
    IN  IF ~URLParses(ur) THEN Ret(<<>>, NoResp, <<>>, ErrE("Invalid", op))
        ELSE IF r = TransportError THEN Ret(<<req>>, r, <<>>, ErrE("IO", op))
        ELSE IF r.status # StatusOK
        THEN Ret(<<req>>, r, <<>>, ErrStr(BufString(Copy(NewBuffer, r.body))))
        ELSE LET buf == NewBuffer IN
             Ret(<<req>>, r,
                 <<Printed("state changed", state)>>
                 \o (IF BufLen(buf) > 0 THEN <<Printed("text", BufString(buf))>> ELSE <<>>),
                 NoError)

\* func pauseSchedule(args []string) error
pauseScheduleFn(a, r) ==
    IF a.parse = "help" THEN Ret(<<>>, NoResp, <<>>, NoError)
    ELSE IF a.parse = "error" THEN Ret(<<>>, NoResp, <<>>, ErrFlag)
    ELSE IF a.id = "" THEN Ret(<<>>, NoResp, <<>>, ErrStr(Lit("please provide a valid ID")))
    ELSE changeScheduleState(a.id, SPaused, r)

\* func resumeSchedule(args []string) error
resumeScheduleFn(a, r) ==
    IF a.parse = "help" THEN Ret(<<>>, NoResp, <<>>, NoError)
    ELSE IF a.parse = "error" THEN Ret(<<>>, NoResp, <<>>, ErrFlag)
    ELSE IF a.id = "" THEN Ret(<<>>, NoResp, <<>>, ErrStr(Lit("please provide a valid ID")))
    ELSE changeScheduleState(a.id, SActive, r)

\* func addSchedule(args []string) error
addScheduleFn(a, r) ==
    LET op == "addSchedule" IN
    IF a.parse = "help" THEN Ret(<<>>, NoResp, <<>>, NoError)
    ELSE IF a.parse = "error" THEN Ret(<<>>, NoResp, <<>>, ErrFlag)
    ELSE LET note == IF a.incremental
                     THEN <<Line("NOTE: incremental repairs are not supported yet")>> ELSE <<>>
         IN
         IF a.cluster = "" THEN Ret(<<>>, NoResp, note, ErrStr(Lit("please provide a cluster")))
         ELSE IF a.keyspace = "" THEN Ret(<<>>, NoResp, note, ErrStr(Lit("please provide a keyspace")))
         ELSE IF a.owner = "" THEN Ret(<<>>, NoResp, note, ErrStr(Lit("please provide an owner")))
         ELSE LET flPar == DefaultPar(a.par)
                  qry == <<Param("clusterName", a.cluster), Param("keyspace", a.keyspace)>>
                         \o (IF Len(a.tables) > 0 THEN <<Param("tables", a.tables)>> ELSE <<>>)
                         \o <<Param("owner", a.owner),
                              Param("segmentCount", Itoa(a.segments)),
                              Param("repairParallelism", ParallelismString(flPar)),
                              Param("intensity", a.intensity),
                              Param("scheduleDaysBetween", Itoa(a.daysBetween))>>
                         \o (IF a.triggerTime # "" THEN <<Param("scheduleTriggerTime", a.triggerTime)>> ELSE <<>>)
                  ur == WithQuery(makeURL(<<"/repair_schedule">>), qry)
                  req == Request("POST", ur)
              IN  IF r = TransportError THEN Ret(<<req>>, r, note, ErrE("IO", op))
                  ELSE IF r.status # StatusCreated
                  THEN Ret(<<req>>, r, note, ErrStr(BufString(Copy(NewBuffer, r.body))))
                  ELSE LET d == Decode(r.body) IN
                       IF ~d.ok THEN Ret(<<req>>, r, note, ErrE("IO", op))
                       ELSE Ret(<<req>>, r,
                                note \o <<Printed("added", d.val.ID), Printed("schedule", d.val)>>,
                                NoError)

-----------------------------------------------------------------------------
(* main *)

\* var commands = map[string]map[string]commandFn
commands ==
    [cluster |-> {"add-cluster", "view-cluster", "list-clusters"},
     repair |-> {"add-repair", "view-repair", "list-repairs",
                 "pause-repair", "resume-repair", "delete-repair"},
     schedule |-> {"add-schedule", "view-schedule", "list-schedules",
                   "pause-schedule", "resume-schedule", "delete-schedule"}]

\* func findCommand(name string) commandFn: the name of the function, or "nil"
findCommand(name) ==
    IF \E group \in DOMAIN commands : name \in commands[group] THEN name ELSE "nil"

\* flagutil.NetworkAddresses.Set on the value of REAPER_HOST.  The package
\* is not part of the repository: the value "he:7000" is taken as one
\* address, "he" is rejected (no port), and "," stands for a value that is
\* accepted without adding an address.
NetworkAddressesSet(a, val) ==
    IF val = "he:7000" THEN SetResult(Append(a, val), NoError)
    ELSE IF val = "," THEN SetResult(a, NoError)
    ELSE SetResult(a, ErrFlag)

\* the host resolution reading REAPER_HOST whether or not -host gave a host
resolveHostEnvFirst(hosts, env) ==
    LET set == IF env # ""
               THEN NetworkAddressesSet(hosts, env)
               ELSE SetResult(hosts, NoError)
    IN  IF set.err # NoError THEN [hosts |-> set.value, status |-> "invalid"]
        ELSE IF Len(set.value) = 0 THEN [hosts |-> set.value, status |-> "missing"]
        ELSE [hosts |-> set.value, status |-> "ok"]

\* main, from os.Getenv("REAPER_HOST") to the second len(flReaperHost) test:
\* the hosts, and "invalid" (log.Fatalf), "missing" (os.Exit(1)) or "ok"
resolveHost(hosts, env) ==
    LET set == IF Len(hosts) = 0 /\ env # ""
               THEN NetworkAddressesSet(hosts, env)
               ELSE SetResult(hosts, NoError)
    IN  IF set.err # NoError THEN [hosts |-> set.value, status |-> "invalid"]
        ELSE IF Len(set.value) = 0 THEN [hosts |-> set.value, status |-> "missing"]
        ELSE [hosts |-> set.value, status |-> "ok"]

\* the process ends in main, before any commandFn is called
Exit(code, hosts, out) ==
    /\ pc' = "done"
    /\ exitCode' = code
    /\ flReaperHost' = hosts
    /\ stdout' = stdout \o out
    /\ UNCHANGED <<mainArgs, command, args, resp, requests, err, fn>>

\* func main(), up to the call of the commandFn
main ==
    /\ pc = "start"
    /\ IF mainArgs.parse = "help" THEN Exit(0, mainArgs.host, <<Line("usage")>>)
       ELSE IF mainArgs.parse = "error" THEN Exit(1, mainArgs.host, <<>>)
       ELSE LET h == resolveHost(mainArgs.host, mainArgs.env) IN
            IF h.status = "invalid" THEN Exit(1, h.hosts, <<>>)
            ELSE IF h.status = "missing" THEN Exit(1, h.hosts, <<Line("usage")>>)
            ELSE IF Len(mainArgs.sub) < 1 THEN Exit(1, h.hosts, <<Line("usage")>>)
            ELSE IF findCommand(mainArgs.sub[1]) = "nil" THEN Exit(1, h.hosts, <<>>)
            ELSE /\ pc' = "run"
                 /\ flReaperHost' = h.hosts
                 /\ command' = findCommand(mainArgs.sub[1])
                 /\ UNCHANGED <<mainArgs, args, resp, requests, stdout, err, exitCode, fn>>

\* main, from the call of the commandFn: log.Fatal(err) if it returns an
\* error; a panic ends the process with code 2
Finish(a, res) ==
    /\ pc' = "done"
    /\ args' = a
    /\ resp' = res.resp
    /\ requests' = requests \o res.requests
    /\ stdout' = stdout \o res.stdout
    /\ err' = res.err
    /\ exitCode' = IF res.panic THEN 2 ELSE IF res.err.kind # "nil" THEN 1 ELSE 0
    /\ UNCHANGED <<mainArgs, flReaperHost, command, fn>>

\* main has found the commandFn of the sub command and calls it
Calls(name) == pc = "run" /\ command = name

-----------------------------------------------------------------------------
(* The inputs of a run *)

\* what the -host flag leaves in flReaperHost after mainFs.Parse
HostFlags == {<<>>, <<"hf:7000">>, <<"hf:7000", "hg:7000">>}
\* the values of REAPER_HOST; "" is unset
EnvValues == {"", "he:7000", "he", ","}
\* mainFs.Args()
SubArgs == {<<>>, <<"next-schedule">>, <<"bogus">>}
           \cup { <<c>> : c \in commands.cluster \cup commands.repair \cup commands.schedule }

MainArgs == [parse : {"ok", "help", "error"}, host : HostFlags, env : EnvValues, sub : SubArgs]

NoArgs == [parse |-> "none"]
NoFn == [spec |-> "program"]

\* fs.Parse returned flag.ErrHelp, or another error: the variables of the
\* flags keep the defaults d
NotParsed(d) == { [d EXCEPT !.parse = p] : p \in {"help", "error"} }

\* the flags of view-repair, pause-repair and resume-repair
RepairIDs == {-1, 0, 1}
RepairIDArgs == { [parse |-> "ok", id |-> i] : i \in RepairIDs }
                \cup NotParsed([parse |-> "ok", id |-> -1])

\* the flags of delete-repair
DeleteRepairArgs == { [parse |-> "ok", id |-> i, owner |-> o] : i \in RepairIDs, o \in {"", "alice"} }
                    \cup NotParsed([parse |-> "ok", id |-> -1, owner |-> ""])

\* the flags of view-schedule, pause-schedule and resume-schedule
ScheduleIDs == {"", "s1", MalformedEscape, QueryInjection, FragmentCut}
ScheduleIDArgs == { [parse |-> "ok", id |-> i] : i \in ScheduleIDs }
                  \cup NotParsed([parse |-> "ok", id |-> ""])

\* the flags of delete-schedule
DeleteScheduleArgs == { [parse |-> "ok", id |-> i, owner |-> o] : i \in ScheduleIDs, o \in {"", "alice"} }
                      \cup NotParsed([parse |-> "ok", id |-> "", owner |-> ""])

\* the flags of add-cluster
AddClusterArgs == { [parse |-> "ok", seed |-> sd] : sd \in {"", "seed1"} }
                  \cup NotParsed([parse |-> "ok", seed |-> ""])

\* a string with its letters in lower case
ToLower(s) == [i \in 1..Len(s) |-> FoldChar(s[i])]

\* The -par flag of add-repair and add-schedule: not given, or given with a
\* token: a keyword in upper or lower case, "sequential" spelled with a long
\* s, the empty string, or no keyword at all.
ParTokens ==
    Parallelisms \cup { ToLower(kw) : kw \in Parallelisms }
    \cup { <<LongS, "e", "q", "u", "e", "n", "t", "i", "a", "l">>, <<>>, <<"x">> }
ParNotGiven == [given |-> FALSE, token |-> <<>>]
ParFlags == {ParNotGiven} \cup { [given |-> TRUE, token |-> t] : t \in ParTokens }

\* fs.Parse with the -par flag pf: flPar.Set is called with the token if the
\* flag is given, and an error of Set is the error of fs.Parse
WithPar(a, pf) ==
    IF ~pf.given THEN a
    ELSE LET set == ParallelismSet(a.par, pf.token) IN
         IF set.err = NoError THEN [a EXCEPT !.parFlag = pf, !.par = set.value]
         ELSE [a EXCEPT !.parFlag = pf, !.parse = "error"]

\* the flags of add-repair
AddRepairArgs ==
    { WithPar([parse |-> "ok", cluster |-> c, keyspace |-> k, tables |-> t, owner |-> o, cause |-> ca,
               segments |-> 200, parFlag |-> ParNotGiven, par |-> <<>>, intensity |-> "0.500"], pf) :
        c \in {"", "c1"}, k \in {"", "k1"}, t \in {<<>>, <<"t1", "t3">>}, o \in {"", "alice"},
        ca \in {"", "manual"}, pf \in ParFlags }
    \cup NotParsed([parse |-> "ok", cluster |-> "", keyspace |-> "", tables |-> <<>>, owner |-> "",
                    cause |-> "", segments |-> 200, parFlag |-> ParNotGiven, par |-> <<>>,
                    intensity |-> "0.500"])

\* the flags of add-schedule
AddScheduleArgs ==
    { WithPar([parse |-> "ok", cluster |-> c, keyspace |-> k, tables |-> t, owner |-> o,
               segments |-> 200, parFlag |-> ParNotGiven, par |-> <<>>, intensity |-> "0.500",
               incremental |-> inc, daysBetween |-> 14, triggerTime |-> ""], pf) :
        c \in {"", "c1"}, k \in {"", "k1"}, t \in {<<>>, <<"t1", "t3">>}, o \in {"", "alice"},
        pf \in ParFlags, inc \in BOOLEAN }
    \cup NotParsed([parse |-> "ok", cluster |-> "", keyspace |-> "", tables |-> <<>>, owner |-> "",
                    segments |-> 200, parFlag |-> ParNotGiven, par |-> <<>>, intensity |-> "0.500",
                    incremental |-> FALSE, daysBetween |-> 14, triggerTime |-> ""])

\* the flags and arguments of view-cluster, with the filters from the given sets
ViewClusterArgs(CFs, RunSts, SchedSts) ==
    { [parse |-> "ok", showRuns |-> sr, showSchedules |-> ss, cfs |-> cf, runState |-> rs,
       scheduleState |-> st, rest |-> rest] :
        sr \in BOOLEAN, ss \in BOOLEAN, cf \in CFs, rs \in RunSts, st \in SchedSts,
        rest \in {<<>>, <<"c1">>, <<MalformedEscape>>} }
    \cup NotParsed([parse |-> "ok", showRuns |-> TRUE, showSchedules |-> FALSE, cfs |-> <<>>,
                    runState |-> <<>>, scheduleState |-> <<>>, rest |-> <<>>])

\* the flags of list-repairs, with the filters from the given sets
ListRepairsArgs(Tables, Owners, Dates) ==
    { [parse |-> "ok", runState |-> rs, cluster |-> "", keyspace |-> k, tables |-> t, owner |-> o,
       cause |-> "", startAfter |-> sa, startBefore |-> sb] :
        rs \in {<<>>, Running}, k \in {"", "k2"}, t \in Tables, o \in Owners,
        sa \in Dates, sb \in Dates }
    \cup NotParsed([parse |-> "ok", runState |-> <<>>, cluster |-> "", keyspace |-> "", tables |-> <<>>,
                    owner |-> "", cause |-> "", startAfter |-> NoDate, startBefore |-> NoDate])

\* the flags of list-schedules, with the filters from the given sets
ListSchedulesArgs(Keyspaces, States, SortBys) ==
    { [parse |-> "ok", cluster |-> "", keyspace |-> k, state |-> st, sortBy |-> sb, reverse |-> rv] :
        k \in Keyspaces, st \in States, sb \in SortBys, rv \in BOOLEAN }
    \cup NotParsed([parse |-> "ok", cluster |-> "", keyspace |-> "", state |-> <<>>, sortBy |-> "",
                    reverse |-> FALSE])

\* the flags of next-schedule
NextScheduleArgs == {[parse |-> "ok"], [parse |-> "help"], [parse |-> "error"]}

\* the bodies of responses
NotJson == {EmptyBody, GarbageBody}
ClusterNamesBodies == NotJson \cup { JsonBody(l) : l \in {<<>>, <<"c1", "c2">>} }
RunBodies == NotJson \cup { JsonBody(RepairRun(1, "alice", <<"t1">>, st)) : st \in {Nil, TicksPerDay} }
ScheduleBodies == NotJson \cup { JsonBody(RepairSchedule("s1", "k1", SActive, <<"t1">>, nx)) : nx \in {Nil, 1} }
RunListBodies(n) == NotJson \cup { JsonBody(l) : l \in SeqsUpTo(RunPool, n) }
ScheduleListBodies(n) == NotJson \cup { JsonBody(l) : l \in SeqsUpTo(SchedulePool, n) }
ClusterBodies(n) ==
    NotJson \cup { JsonBody(Cluster("c1", <<"seed1">>, runs, scheds)) :
                    runs \in SeqsUpTo({ RepairRun(1, "alice", cf, Nil) : cf \in {<<>>, <<"t1">>} }, n),
                    scheds \in SeqsUpTo({ RepairSchedule("s1", "k1", SActive, cf, Nil) : cf \in {<<>>, <<"t1">>} }, n) }

-----------------------------------------------------------------------------
(* The run of the program *)

Init ==
    /\ pc = "start"
    /\ mainArgs \in MainArgs
    /\ flReaperHost = <<>>
    /\ command = ""
    /\ args = NoArgs
    /\ resp = NoResp
    /\ requests = <<>>
    /\ stdout = <<>>
    /\ err = NoError
    /\ exitCode = -1
    /\ fn = NoFn

\* main calls listClusters with arguments from os.Args, the transport answering from Outcomes(ClusterNamesBodies)
listClusters ==
    /\ Calls("list-clusters")
    /\ \E a \in {NoArgs}, r \in Outcomes(ClusterNamesBodies) : Finish(a, listClustersFn(r))

\* main calls viewCluster with arguments from A, the transport answering from R
viewCluster(A, R) ==
    /\ Calls("view-cluster")
    /\ \E a \in A, r \in R : Finish(a, viewClusterFn(a, r))

\* main calls addCluster with arguments from AddClusterArgs, the transport answering from Outcomes(ClusterBodies(0))
addCluster ==
    /\ Calls("add-cluster")
    /\ \E a \in AddClusterArgs, r \in Outcomes(ClusterBodies(0)) : Finish(a, addClusterFn(a, r))

\* main calls listRepairs with arguments from A, the transport answering from R
listRepairs(A, R) ==
    /\ Calls("list-repairs")
    /\ \E a \in A, r \in R : Finish(a, listRepairsFn(a, r))

\* main calls viewRepair with arguments from RepairIDArgs, the transport answering from Outcomes(RunBodies)
viewRepair ==
    /\ Calls("view-repair")
    /\ \E a \in RepairIDArgs, r \in Outcomes(RunBodies) : Finish(a, viewRepairFn(a, r))

\* main calls pauseRepair with arguments from RepairIDArgs, the transport answering from Outcomes(RunBodies)
pauseRepair ==
    /\ Calls("pause-repair")
    /\ \E a \in RepairIDArgs, r \in Outcomes(RunBodies) : Finish(a, pauseRepairFn(a, r))

\* main calls resumeRepair with arguments from RepairIDArgs, the transport answering from Outcomes(RunBodies)
resumeRepair ==
    /\ Calls("resume-repair")
    /\ \E a \in RepairIDArgs, r \in Outcomes(RunBodies) : Finish(a, resumeRepairFn(a, r))

\* main calls deleteRepair with arguments from DeleteRepairArgs, the transport answering from Outcomes(RunBodies)
deleteRepair ==
    /\ Calls("delete-repair")
    /\ \E a \in DeleteRepairArgs, r \in Outcomes(RunBodies) : Finish(a, deleteRepairFn(a, r))

\* main calls addRepair with arguments from AddRepairArgs, the transport answering from Outcomes(RunBodies)
addRepair ==
    /\ Calls("add-repair")
    /\ \E a \in AddRepairArgs, r \in Outcomes(RunBodies) : Finish(a, addRepairFn(a, r))

\* main calls listSchedules with arguments from A, the transport answering from R
listSchedules(A, R) ==
    /\ Calls("list-schedules")
    /\ \E a \in A, r \in R : Finish(a, listSchedulesFn(a, r))

\* main calls viewSchedule with arguments from ScheduleIDArgs, the transport answering from Outcomes(ScheduleBodies)
viewSchedule ==
    /\ Calls("view-schedule")
    /\ \E a \in ScheduleIDArgs, r \in Outcomes(ScheduleBodies) : Finish(a, viewScheduleFn(a, r))

\* main calls pauseSchedule with arguments from ScheduleIDArgs, the transport answering from Outcomes(ScheduleBodies)
pauseSchedule ==
    /\ Calls("pause-schedule")
    /\ \E a \in ScheduleIDArgs, r \in Outcomes(ScheduleBodies) : Finish(a, pauseScheduleFn(a, r))

\* main calls resumeSchedule with arguments from ScheduleIDArgs, the transport answering from Outcomes(ScheduleBodies)
resumeSchedule ==
    /\ Calls("resume-schedule")
    /\ \E a \in ScheduleIDArgs, r \in Outcomes(ScheduleBodies) : Finish(a, resumeScheduleFn(a, r))

\* main calls deleteSchedule with arguments from DeleteScheduleArgs, the transport answering from Outcomes(ScheduleBodies)
deleteSchedule ==
    /\ Calls("delete-schedule")
    /\ \E a \in DeleteScheduleArgs, r \in Outcomes(ScheduleBodies) : Finish(a, deleteScheduleFn(a, r))

\* main calls addSchedule with arguments from AddScheduleArgs, the transport answering from Outcomes(ScheduleBodies)
addSchedule ==
    /\ Calls("add-schedule")
    /\ \E a \in AddScheduleArgs, r \in Outcomes(ScheduleBodies) : Finish(a, addScheduleFn(a, r))

Next ==
    \/ main
    \/ listClusters
    \/ viewCluster(ViewClusterArgs({<<>>, <<"t1">>}, {<<>>}, {<<>>}), Outcomes(ClusterBodies(1)))
    \/ addCluster
    \/ listRepairs(ListRepairsArgs({<<>>, <<"t1">>}, {""}, {NoDate, Date(1)}), Outcomes(RunListBodies(1)))
    \/ viewRepair
    \/ pauseRepair
    \/ resumeRepair
    \/ deleteRepair
    \/ addRepair
    \/ listSchedules(ListSchedulesArgs({"", "k1"}, {<<>>}, {"", ScheduleSortByNextActivation}),
                     Outcomes(ScheduleListBodies(1)))
    \/ viewSchedule
    \/ pauseSchedule
    \/ resumeSchedule
    \/ deleteSchedule
    \/ addSchedule

Spec == Init /\ [][Next]_vars

-----------------------------------------------------------------------------
(* list-repairs, list-schedules and next-schedule with longer responses *)

\* the state in which main calls the commandFn of cmd, the host given by -host
CalledWith(cmd) ==
    /\ pc = "run"
    /\ mainArgs = [parse |-> "ok", host |-> <<"hf:7000">>, env |-> "", sub |-> <<cmd>>]
    /\ flReaperHost = <<"hf:7000">>
    /\ command = cmd
    /\ args = NoArgs
    /\ resp = NoResp
    /\ requests = <<>>
    /\ stdout = <<>>
    /\ err = NoError
    /\ exitCode = -1
    /\ fn = NoFn

\* the dates of -start-after and -start-before
DateFlags == {NoDate} \cup { Date(d) : d \in DateTokens }

InitListRepairs == CalledWith("list-repairs")

NextListRepairs ==
    listRepairs(ListRepairsArgs(FlagCFLists, {"", "alice"}, DateFlags), Outcomes(RunListBodies(MaxRuns)))

SpecListRepairs == InitListRepairs /\ [][NextListRepairs]_vars

\* nextSchedule is not in commands: no sub command of main reaches it.  It
\* is called here as main calls a commandFn.
nextSchedule ==
    /\ Calls("next-schedule")
    /\ \E a \in NextScheduleArgs, r \in Outcomes(ScheduleListBodies(MaxScheds)) :
          Finish(a, nextScheduleFn(a, r))

InitSchedules == \E cmd \in {"list-schedules", "next-schedule"} : CalledWith(cmd)

NextSchedules ==
    \/ listSchedules(ListSchedulesArgs({"", "k1"}, {<<>>, SActive},
                                       {"", ScheduleSortByNextActivation, "name"}),
                     Outcomes(ScheduleListBodies(MaxScheds)))
    \/ nextSchedule

SpecSchedules == InitSchedules /\ [][NextSchedules]_vars

-----------------------------------------------------------------------------
(* The enum flag values on their own *)

EnumTypes == {"RunState", "ScheduleState", "Parallelism"}

Variants(type) ==
    IF type = "RunState" THEN RunStates
    ELSE IF type = "ScheduleState" THEN ScheduleStates
    ELSE Parallelisms

\* the Set of a type
EnumSet(type, v, token) ==
    IF type = "RunState" THEN RunStateSet(v, token)
    ELSE IF type = "ScheduleState" THEN ScheduleStateSet(v, token)
    ELSE ParallelismSet(v, token)

\* the String of a type
EnumString(type, v) ==
    IF type = "RunState" THEN RunStateString(v)
    ELSE IF type = "ScheduleState" THEN ScheduleStateString(v)
    ELSE ParallelismString(v)

\* a keyword with the letters at the positions S in upper case and the
\* others in lower case
WithCase(kw, S) == [i \in 1..Len(kw) |-> IF i \in S THEN ToUpperChar(kw[i]) ELSE FoldChar(kw[i])]

\* The tokens given to Set: the keywords of the three types in upper case
\* and with every letter case of their first MaxCasePos letters, and tokens
\* that are no keyword: empty, a letter, with a quote, a backslash or a
\* newline, a keyword cut short or extended, a keyword spelled with a long s.
EnumTokens ==
    UNION { { WithCase(kw, S) : S \in SUBSET (1..Min(MaxCasePos, Len(kw))) } \cup {kw} :
            kw \in RunStates \cup ScheduleStates \cup Parallelisms }
    \cup { <<>>, <<"x">>, <<"a", DQ, "b">>, <<BS>>, <<"o", "n", BS>>, <<"d", "o", "n", "e", NL>>,
           <<"d", "o", "n">>, <<"d", "o", "n", "e", "e">>, <<" ", "d", "o", "n", "e">>,
           <<"p", "a", "u", LongS, "e", "d">> }

ProgramNotRun ==
    /\ pc = "helper"
    /\ mainArgs = [parse |-> "ok", host |-> <<>>, env |-> "", sub |-> <<>>]
    /\ flReaperHost = <<>>
    /\ command = ""
    /\ args = NoArgs
    /\ resp = NoResp
    /\ requests = <<>>
    /\ stdout = <<>>
    /\ err = NoError
    /\ exitCode = -1

ProgramUnchanged ==
    UNCHANGED <<pc, mainArgs, flReaperHost, command, args, resp, requests, stdout, err, exitCode>>

\* a flag variable of one of the types, holding nothing or a value, and the
\* token it is about to be given
InitEnum ==
    /\ ProgramNotRun
    /\ \E type \in EnumTypes, token \in EnumTokens :
       \E v \in {<<>>} \cup Variants(type) :
          fn = [spec |-> "enum", stage |-> "start", type |-> type, token |-> token,
                value |-> v, prev |-> v, err |-> NoError]

\* fs.Parse gives the token to the Set of the variable
FlagSet ==
    /\ fn.stage = "start"
    /\ LET set == EnumSet(fn.type, fn.value, fn.token) IN
       fn' = [fn EXCEPT !.stage = "set", !.value = set.value, !.err = set.err]
    /\ ProgramUnchanged

\* the String of the value that was set
FlagString ==
    /\ fn.stage = "set"
    /\ fn.err = NoError
    /\ fn' = [fn EXCEPT !.stage = "string", !.token = EnumString(fn.type, fn.value), !.prev = fn.value]
    /\ ProgramUnchanged

\* a new variable of the type is given that string
FlagSetString ==
    /\ fn.stage = "string"
    /\ LET set == EnumSet(fn.type, <<>>, fn.token) IN
       fn' = [fn EXCEPT !.stage = "roundtrip", !.value = set.value, !.err = set.err]
    /\ ProgramUnchanged

NextEnum == FlagSet \/ FlagString \/ FlagSetString

SpecEnum == InitEnum /\ [][NextEnum]_vars

-----------------------------------------------------------------------------
(* contains on its own *)

\* the strings in the lists given to contains
Elems == {"t1", "t2", "t3"}

InitContains ==
    /\ ProgramNotRun
    /\ \E a \in SeqsUpTo(Elems, MaxLen), b \in SeqsUpTo(Elems, MaxLen) :
          fn = [spec |-> "contains", stage |-> "start", a |-> a, b |-> b, result |-> FALSE]

CallContains ==
    /\ fn.stage = "start"
    /\ fn' = [fn EXCEPT !.stage = "returned", !.result = contains(fn.a, fn.b)]
    /\ ProgramUnchanged

NextContains == CallContains

SpecContains == InitContains /\ [][NextContains]_vars

-----------------------------------------------------------------------------
(* sortSchedules on its own *)

\* the values of -sort-by
SortBys == {"", ScheduleSortByNextActivation, "name"}

InitSort ==
    /\ ProgramNotRun
    /\ \E res \in SeqsUpTo(SchedulePool, MaxScheds), sortBy \in SortBys, reverse \in BOOLEAN :
          fn = [spec |-> "sort", stage |-> "start", res |-> res, sortBy |-> sortBy,
                reverse |-> reverse, sorted |-> res, panic |-> FALSE]

\* sortSchedules(res, sortBy, reverse): the slice afterwards, or the panic
CallSortSchedules ==
    /\ fn.stage = "start"
    /\ LET out == sortSchedules(fn.res, fn.sortBy, fn.reverse) IN
       fn' = [fn EXCEPT !.stage = "returned", !.sorted = out.res, !.panic = out.panic]
    /\ ProgramUnchanged

NextSort == CallSortSchedules

SpecSort == InitSort /\ [][NextSort]_vars

-----------------------------------------------------------------------------
(* view-cluster with several runs and schedules in the cluster *)

\* the longest lists of runs and of schedules of a cluster
MaxClusterRecords == 2

InitViewCluster == CalledWith("view-cluster")

NextViewCluster ==
    viewCluster(ViewClusterArgs({<<>>, <<"t1">>}, {<<>>, Running, Done}, {<<>>, SActive, SPaused}),
                Outcomes(ClusterBodies(MaxClusterRecords)))

SpecViewCluster == InitViewCluster /\ [][NextViewCluster]_vars

-----------------------------------------------------------------------------
(* Claims *)

\* a commandFn was called and has returned (or panicked)
Returned == pc = "done" /\ command # ""

\* the commandFn got a response from the server
Answered == Returned /\ resp.kind = "response"

\* the status a command takes as success
ExpectedStatus(cmd) ==
    IF cmd \in {"add-repair", "add-schedule"} THEN StatusCreated ELSE StatusOK

\* the kinds of output that render a record or a list
RecordKinds == {"cluster", "title", "seed", "added", "deleted", "run", "schedule"}

RendersRecord ==
    \E i \in 1..Len(stdout) :
        \/ stdout[i].k \in RecordKinds
        \/ stdout[i].k = "line" /\ stdout[i].v = "All clusters:"

\* C1: for every command, a response whose status is not the command's
\* success code (201 for add-repair and add-schedule, 200 otherwise) makes
\* the command return an error whose message is the response body, and no
\* record or list is rendered; one is rendered only on the success code.
C1_StatusChecked ==
    Answered /\ resp.status # ExpectedStatus(command)
        => /\ err = ErrStr(resp.body)
           /\ ~RendersRecord

\* C4: after a delete-repair answered with 200 the body is echoed, and after
\* a pause or resume of a repair or a schedule answered with 200 a non-empty
\* body is printed after the state change message: the text printed is the
\* body the server sent.
C4_BodyEchoed ==
    Answered /\ resp.status = StatusOK =>
        /\ command = "delete-repair" => stdout = <<Printed("text", resp.body)>>
        /\ command \in {"pause-repair", "resume-repair", "pause-schedule", "resume-schedule"}
           /\ resp.body # EmptyBody
              => /\ Len(stdout) = 2
                 /\ stdout[1].k = "state changed"
                 /\ stdout[2] = Printed("text", resp.body)

\* the commands that take a repair id, a schedule id, an owner
RepairIDCommands == {"view-repair", "pause-repair", "resume-repair", "delete-repair"}
ScheduleIDCommands == {"view-schedule", "pause-schedule", "resume-schedule", "delete-schedule"}
OwnerCommands == {"delete-repair", "delete-schedule", "add-repair", "add-schedule"}

\* the flags were parsed and a required parameter is missing or invalid
MissingParameter ==
    /\ args.parse = "ok"
    /\ \/ command = "add-cluster" /\ args.seed = ""
       \/ command = "view-cluster" /\ Len(args.rest) < 1
       \/ command \in RepairIDCommands /\ args.id <= 0
       \/ command \in ScheduleIDCommands /\ args.id = ""
       \/ command \in OwnerCommands /\ args.owner = ""
       \/ command = "add-repair" /\ (args.cluster = "" \/ args.keyspace = "" \/ args.cause = "")
       \/ command = "add-schedule" /\ (args.cluster = "" \/ args.keyspace = "")

\* C8: a missing or invalid required parameter, or a flag parse error, makes
\* the command return an error and no HTTP request is issued.
C8_ValidatedBeforeRequest ==
    Returned /\ (args.parse = "error" \/ MissingParameter)
        => /\ err.kind # "nil"
           /\ exitCode = 1
           /\ requests = <<>>
           /\ resp = NoResp

\* add-repair without a cause, all the other required flags given
C8_Witness ==
    /\ Returned
    /\ command = "add-repair"
    /\ args.parse = "ok"
    /\ args.cluster # "" /\ args.keyspace # "" /\ args.owner # "" /\ args.cause = ""
    /\ err = ErrStr(Lit("please provide a cause"))
    /\ requests = <<>>

\* main and the command parsed their flags and found the parameters valid
ParsedAndValid ==
    /\ command # ""
    /\ args.parse \in {"ok", "none"}
    /\ ~MissingParameter

\* the string the command puts in the path of the URL has a malformed
\* percent escape
PathMalformed ==
    /\ args.parse = "ok"
    /\ \/ command \in ScheduleIDCommands /\ args.id = MalformedEscape
       \/ command = "view-cluster" /\ Len(args.rest) >= 1 /\ args.rest[1] = MalformedEscape

FlagYieldsHost == Len(mainArgs.host) > 0
EnvYieldsHost == mainArgs.env = "he:7000"

\* the host is that of the flag, else that of the environment, and every
\* URL is made with the first host of a list that is not empty
HostResolved ==
    /\ pc = "run" \/ Returned =>
          /\ Len(flReaperHost) > 0
          /\ FlagYieldsHost => flReaperHost = mainArgs.host
          /\ ~FlagYieldsHost => flReaperHost = <<mainArgs.env>>
    /\ \A i \in 1..Len(requests) :
          Len(flReaperHost) > 0 /\ requests[i].url.host = flReaperHost[1]

RunsListed == Answered /\ command = "list-repairs" /\ resp.status = StatusOK /\ resp.body.tag = "json"

RunPrinted(run) == \E i \in 1..Len(stdout) : stdout[i] = Printed("run", run)

\* the filters of list-repairs other than -tables let the run through
OtherFiltersPass(run) ==
    /\ args.cluster = "" \/ args.cluster = run.ClusterName
    /\ args.keyspace = "" \/ args.keyspace = run.KeyspaceName
    /\ args.owner = "" \/ args.owner = run.Owner
    /\ args.cause = "" \/ args.cause = run.Cause
    /\ ~args.startAfter.given /\ ~args.startBefore.given

\* C2: in list-repairs with a non-empty -tables, a run passes the tables
\* filter, and is printed if the other filters let it through, if and only
\* if its column families share an element with the requested tables; a run
\* with none in common is not printed.
C2_TablesFilterKeepsOverlap ==
    RunsListed /\ Len(args.tables) > 0 =>
        \A i \in 1..Len(resp.body.val) :
            LET run == resp.body.val[i]
                overlap == Range(run.ColumnFamilies) \cap Range(args.tables) # {}
            IN  /\ RunPrinted(run) => overlap
                /\ overlap /\ OtherFiltersPass(run) => RunPrinted(run)

\* only the date flags of list-repairs are given
OnlyDateFilters ==
    /\ args.cluster = "" /\ args.keyspace = "" /\ args.owner = "" /\ args.cause = ""
    /\ Len(args.tables) = 0

\* the start time is not before the lower bound and not after the upper
\* bound, for the bounds that are given
InDateRange(start) ==
    /\ args.startAfter.given => start >= args.startAfter.day * TicksPerDay
    /\ args.startBefore.given => start <= args.startBefore.day * TicksPerDay

\* C5: in list-repairs with -start-after or -start-before given, whatever
\* the date, every run without a start time is left out and no absent start
\* time is dereferenced; a run with a start time is kept if and only if it is
\* not before the lower bound and not after the upper bound, so that a start
\* time equal to a bound is kept.
C5_DateRange ==
    RunsListed /\ (args.startAfter.given \/ args.startBefore.given) =>
        /\ exitCode # 2
        /\ \A i \in 1..Len(resp.body.val) :
              LET run == resp.body.val[i] IN
              /\ run.StartTime = Nil => ~RunPrinted(run)
              /\ run.StartTime # Nil /\ OnlyDateFilters
                    => (RunPrinted(run) <=> InDateRange(run.StartTime))

\* C3: list-schedules sorted by next-activation and next-schedule never
\* dereference an absent next activation: whatever list of schedules the
\* server returns, records with a null next_activation included, the command
\* completes without a panic.
C3_NoNilDereference ==
    pc = "done" /\ command \in {"list-schedules", "next-schedule"} => exitCode # 2

\* the token is the canonical string v in some letter case
IsCaseVariant(token, v) ==
    /\ Len(token) = Len(v)
    /\ \A i \in 1..Len(v) : ToUpperChar(token[i]) = v[i]

\* the token is v under case folding: with a long s for an S, too
FoldsTo(token, v) ==
    /\ Len(token) = Len(v)
    /\ \A i \in 1..Len(v) : ToUpperChar(token[i]) = v[i] \/ (token[i] = LongS /\ v[i] = "S")

MatchesKeyword == \E v \in Variants(fn.type) : FoldsTo(fn.token, v)

\* the prefix of the message of the Set of a type
InvalidPrefix(type) == IF type = "Parallelism" THEN InvalidParallelismPrefix ELSE InvalidStatePrefix

\* fs.Parse has given the token to Set
TokenSet == fn.spec = "enum" /\ fn.stage = "set"

\* what Set does with a keyword in any letter case, and with its own String
EnumAccepts ==
    /\ TokenSet => \A v \in Variants(fn.type) :
                      IsCaseVariant(fn.token, v) => fn.err = NoError /\ fn.value = v
    /\ fn.spec = "enum" /\ fn.stage = "roundtrip" => fn.err = NoError /\ fn.value = fn.prev
    /\ TokenSet /\ MatchesKeyword => fn.err = NoError
    /\ TokenSet /\ ~MatchesKeyword => fn.err.kind = "str" /\ fn.value = fn.prev

\* C6, as claimed: Set accepts every letter case of a keyword and stores the
\* canonical upper case value; Set(String(v)) yields v for every value v; a
\* token that matches no keyword yields an error whose message contains the
\* token.
C6_ErrorContainsToken ==
    /\ EnumAccepts
    /\ TokenSet /\ ~MatchesKeyword => IsSubstring(fn.token, fn.err.s)

\* %q writes the token without an escape sequence
NoEscape(token) == \A i \in 1..Len(token) : token[i] \notin {DQ, BS, NL}

\* C6, amended: the same, but the message of the error holds the token as
\* %q writes it, between double quotes and with escape sequences for a double
\* quote, a backslash or a character that is not printable; the token itself
\* is in the message when it has no such character.
C6_ErrorQuotesToken ==
    /\ EnumAccepts
    /\ TokenSet /\ ~MatchesKeyword =>
          /\ fn.err.s = InvalidPrefix(fn.type) \o Quote(fn.token)
          /\ NoEscape(fn.token) => IsSubstring(fn.token, fn.err.s)

\* a RunState flag holding DONE is given a token with a double quote: the
\* value stays and the message holds the token with the quote escaped
C6_Witness ==
    /\ TokenSet
    /\ fn.type = "RunState"
    /\ fn.prev = Done
    /\ fn.token = <<"a", DQ, "b">>
    /\ fn.value = Done
    /\ fn.err = ErrStr(InvalidStatePrefix \o <<DQ, "a", BS, DQ, "b", DQ>>)
    /\ ~IsSubstring(fn.token, fn.err.s)

\* contains has returned
ContainsReturned == fn.spec = "contains" /\ fn.stage = "returned"

\* C7: contains(a, b) is true if and only if a and b share an element; it is
\* false when a or b is empty, and the order and the repetition of the
\* elements do not matter.
C7_ContainsIsOverlap ==
    ContainsReturned =>
        /\ fn.result <=> (Range(fn.a) \cap Range(fn.b) # {})
        /\ fn.a = <<>> \/ fn.b = <<>> => ~fn.result

\* the only common element is the last of b and is repeated in a
C7_Witness ==
    /\ ContainsReturned
    /\ fn.a = <<"t2", "t1", "t2">>
    /\ fn.b = <<"t3", "t2">>
    /\ fn.result

\* the parse of the main flags failed, no host was found, or main found no
\* command function to call
MainStageError ==
    \/ mainArgs.parse = "error"
    \/ /\ mainArgs.parse = "ok"
       /\ \/ ~FlagYieldsHost /\ ~EnvYieldsHost
          \/ Len(mainArgs.sub) < 1
          \/ findCommand(mainArgs.sub[1]) = "nil"

\* the commands that decode the body of a response with the success code
DecodingCommands ==
    {"list-clusters", "view-cluster", "add-cluster", "list-repairs", "view-repair", "add-repair",
     "list-schedules", "view-schedule", "delete-schedule", "add-schedule"}

\* a stage of the command function failed: the parse of its flags, the
\* validation, the making of the request, the transport, the status of the
\* response or the decoding of its body
CommandStageError ==
    /\ Returned
    /\ \/ args.parse = "error"
       \/ MissingParameter
       \/ PathMalformed
       \/ resp = TransportError
       \/ /\ resp.kind = "response"
          /\ \/ resp.status # ExpectedStatus(command)
             \/ command \in DecodingCommands /\ resp.body.tag # "json"

\* C11: the process exits with a non-zero code if and only if a stage
\* reported an error (missing host, missing or unknown sub command,
\* validation, transport, a response without the success code, decoding);
\* an error a command function returns is never swallowed, and a run with no
\* error exits with zero.
C11_ExitNonZeroIffError ==
    pc = "done" =>
        /\ exitCode # 0 <=> (MainStageError \/ CommandStageError)
        /\ err # NoError => exitCode # 0

\* C12: a command whose flag parser reports flag.ErrHelp returns nil with no
\* HTTP request and no validation of its parameters; any other error of the
\* parser is returned as an error, with no HTTP request either.
C12_HelpReturnsNil ==
    /\ Returned /\ args.parse = "help"
          => err = NoError /\ exitCode = 0 /\ requests = <<>> /\ resp = NoResp /\ stdout = <<>>
    /\ Returned /\ args.parse = "error"
          => err # NoError /\ exitCode = 1 /\ requests = <<>> /\ resp = NoResp /\ stdout = <<>>

\* add-schedule -h: the flags keep their defaults, which the validation
\* would refuse, and the command returns nil without a request
C12_Witness ==
    /\ Returned
    /\ command = "add-schedule"
    /\ args.parse = "help"
    /\ args.cluster = "" /\ args.owner = ""
    /\ err = NoError
    /\ exitCode = 0
    /\ requests = <<>>

\* sortSchedules has returned or panicked
SortReturned == fn.spec = "sort" /\ fn.stage = "returned"

\* every schedule of the list has a next activation
AllHaveNext(res) == \A i \in 1..Len(res) : res[i].NextActivation # Nil

\* how many times x is in s
Count(s, x) == Cardinality({ i \in 1..Len(s) : s[i] = x })

IsPermutation(s, t) ==
    /\ Len(s) = Len(t)
    /\ \A x \in Range(s) \cup Range(t) : Count(s, x) = Count(t, x)

\* next activations never decrease (never increase, if reverse) along s
Ordered(s, reverse) ==
    \A i \in 1..Len(s) - 1 :
        IF reverse THEN s[i].NextActivation >= s[i + 1].NextActivation
        ELSE s[i].NextActivation <= s[i + 1].NextActivation

\* C13: with sort-by next-activation and a next activation in every
\* schedule, sortSchedules leaves a permutation of the list that is
\* non-decreasing in next activation, or non-increasing when reverse is set;
\* with any other sort-by, set or not, the list is left as it was.
C13_SortedPermutation ==
    SortReturned =>
        /\ fn.sortBy = ScheduleSortByNextActivation /\ AllHaveNext(fn.res)
              => /\ ~fn.panic
                 /\ IsPermutation(fn.sorted, fn.res)
                 /\ Ordered(fn.sorted, fn.reverse)
        /\ fn.sortBy # ScheduleSortByNextActivation
              => ~fn.panic /\ fn.sorted = fn.res

\* three schedules in ascending order of next activation, two of them at
\* the same time, sorted in reverse: the order has changed
C13_Witness ==
    /\ SortReturned
    /\ fn.sortBy = ScheduleSortByNextActivation
    /\ fn.reverse
    /\ Len(fn.res) = 3
    /\ AllHaveNext(fn.res)
    /\ fn.res[1].NextActivation = 1 /\ fn.res[2].NextActivation = 1 /\ fn.res[3].NextActivation = 2
    /\ fn.sorted # fn.res
    /\ fn.sorted[1] = fn.res[3]

\* the commands that change a state, and the state each of them names
StateCommands == {"pause-repair", "resume-repair", "pause-schedule", "resume-schedule"}
StateOf(cmd) ==
    IF cmd = "pause-repair" THEN RunStateString(Paused)
    ELSE IF cmd = "resume-repair" THEN RunStateString(Running)
    ELSE IF cmd = "pause-schedule" THEN ScheduleStateString(SPaused)
    ELSE ScheduleStateString(SActive)

\* the path of the resource with the id the command was given
ResourcePath(cmd, id) ==
    IF cmd \in {"pause-repair", "resume-repair"} THEN <<"/repair_run/", Itoa(id)>>
    ELSE <<"/repair_schedule/", id>>

\* C14: every request of pause-repair, resume-repair, pause-schedule and
\* resume-schedule is a PUT on the resource of the given id whose query is
\* the one pair state=PAUSED, state=RUNNING, state=PAUSED, state=ACTIVE in
\* that order of the commands: no other state is sent.
C14_StateFixedByCommand ==
    command \in StateCommands =>
        \A i \in 1..Len(requests) :
            /\ requests[i].method = "PUT"
            /\ requests[i].url.path = ResourcePath(command, args.id)
            /\ requests[i].url.query = <<Param("state", StateOf(command))>>

\* the commands that create a run or a schedule
AddCommands == {"add-repair", "add-schedule"}

\* the values of the pairs named k of a query
ValuesOf(q, k) == [i \in { j \in 1..Len(q) : q[j][1] = k } |-> q[i][2]]

\* C15: every POST of add-repair and add-schedule has one repairParallelism
\* pair in its query; its value is SEQUENTIAL when -par is not given and
\* otherwise the keyword the given token spells, in upper case; it is one of
\* SEQUENTIAL, PARALLEL and DATACENTER_AWARE and never empty.
C15_ParallelismSent ==
    command \in AddCommands =>
        \A i \in 1..Len(requests) :
            LET sent == ValuesOf(requests[i].url.query, "repairParallelism") IN
            /\ requests[i].method = "POST"
            /\ Cardinality(DOMAIN sent) = 1
            /\ \A j \in DOMAIN sent :
                  /\ sent[j] \in {ParallelismString(p) : p \in Parallelisms}
                  /\ sent[j] # <<>>
                  /\ ~args.parFlag.given => sent[j] = ParallelismString(Sequential)
                  /\ args.parFlag.given => sent[j] = ToUpper(ToLower(args.parFlag.token))

\* add-schedule -par datacenter_aware, in lower case: the POST carries
\* DATACENTER_AWARE
C15_Witness ==
    /\ Returned
    /\ command = "add-schedule"
    /\ args.parse = "ok"
    /\ args.parFlag = [given |-> TRUE, token |-> ToLower(DatacenterAware)]
    /\ Len(requests) = 1
    /\ requests[1].method = "POST"
    /\ \E j \in 1..Len(requests[1].url.query) :
          requests[1].url.query[j] = Param("repairParallelism", DatacenterAware)

\* list-schedules parsed its flags and the server answered 200 with a list
SchedulesListed ==
    /\ Returned
    /\ command = "list-schedules"
    /\ args.parse = "ok"
    /\ resp.kind = "response"
    /\ resp.status = StatusOK
    /\ resp.body.tag = "json"

\* the schedule passes the filters of -keyspace and -state that are given
PassesFilters(sched) ==
    /\ args.keyspace = "" \/ sched.KeyspaceName = args.keyspace
    /\ args.state = <<>> \/ sched.State = args.state

Filtered(res) == SelectSeq(res, PassesFilters)

\* the schedules printed, in the order of printing
PrintedSchedules == [i \in 1..Len(stdout) |-> stdout[i].v]

\* C16: list-schedules prints the schedules of the response that pass the
\* filters given, each once and nothing else, ordered by next activation
\* when -sort-by next-activation is given (descending with -reverse-sort)
\* and in the order of the server otherwise; filtering and then sorting
\* gives the same sequence.
C16_ListsFilteredInSortOrder ==
    SchedulesListed =>
        /\ exitCode = 0
        /\ \A i \in 1..Len(stdout) : stdout[i].k = "schedule"
        /\ IsPermutation(PrintedSchedules, Filtered(resp.body.val))
        /\ IF args.sortBy = ScheduleSortByNextActivation
           THEN Ordered(PrintedSchedules, args.reverse)
           ELSE PrintedSchedules = Filtered(resp.body.val)
        /\ LET filteredFirst == sortSchedules(Filtered(resp.body.val), args.sortBy, args.reverse) IN
           ~filteredFirst.panic /\ PrintedSchedules = filteredFirst.res

\* nextSchedule parsed its flags and the server answered 200 with a list
NextScheduleAnswered ==
    /\ Returned
    /\ command = "next-schedule"
    /\ args.parse = "ok"
    /\ resp.kind = "response"
    /\ resp.status = StatusOK
    /\ resp.body.tag = "json"

\* C17: next-schedule returns nil; it prints nothing when the list of the
\* response is empty, and otherwise exactly one schedule of the list, whose
\* next activation is not after that of any schedule of the list, whatever
\* the states of the schedules.
C17_NextScheduleIsEarliest ==
    NextScheduleAnswered =>
        /\ exitCode = 0
        /\ err = NoError
        /\ resp.body.val = <<>> => stdout = <<>>
        /\ resp.body.val # <<>> =>
              /\ Len(stdout) = 1
              /\ stdout[1].k = "schedule"
              /\ stdout[1].v \in Range(resp.body.val)
              /\ \A i \in 1..Len(resp.body.val) :
                    stdout[1].v.NextActivation <= resp.body.val[i].NextActivation

\* view-cluster parsed its flags and the server answered 200 with a cluster
ClusterViewed ==
    /\ Returned
    /\ command = "view-cluster"
    /\ args.parse = "ok"
    /\ resp.kind = "response"
    /\ resp.status = StatusOK
    /\ resp.body.tag = "json"

\* the record passes the column family filter and the state filter
PassesClusterFilters(rec, state) ==
    /\ args.cfs = <<>> \/ Range(rec.ColumnFamilies) \cap Range(args.cfs) # {}
    /\ state = <<>> \/ rec.State = state

\* a record of the list passes the filters
SomePasses(recs, state) == \E i \in 1..Len(recs) : PassesClusterFilters(recs[i], state)

\* the positions in the output of the header h, and of the records of kind k
HeaderAt(h) == { i \in 1..Len(stdout) : stdout[i] = Line(h) }
RecordsAt(k) == { i \in 1..Len(stdout) : stdout[i].k = k }

\* the header h of a section is printed at most once, if and only if the
\* section is shown and a record of it passes; it is before the records
SectionHeader(h, k, shown, recs, state) ==
    /\ Cardinality(HeaderAt(h)) <= 1
    /\ HeaderAt(h) # {} <=> (shown /\ SomePasses(recs, state))
    /\ \A i \in RecordsAt(k) : \E j \in HeaderAt(h) : j < i

\* C18: in the output of view-cluster each of the headers "Runs:" and
\* "Schedules:" is printed at most once, and exactly when its section is
\* enabled and a record of the section passes the column family and state
\* filters; the header is before every record of its section.
C18_SectionHeaders ==
    ClusterViewed =>
        /\ SectionHeader("Runs:", "run", args.showRuns, resp.body.val.RepairRuns, args.runState)
        /\ SectionHeader("Schedules:", "schedule", args.showSchedules,
                         resp.body.val.RepairSchedules, args.scheduleState)

====
